---------------------------- MODULE Spec2Model ----------------------------
(***************************************************************************)
(* VADERBOOT-IA signal scoring service (src/app.py).                       *)
(*                                                                         *)
(* Numbers are exact fixed-point integers:                                 *)
(*   technical readings (plot_0, plot_2, close)  tenths                    *)
(*   technical_score                             numerator over TechDen    *)
(*   fundamental_score, rounded ml_prob/scores   thousandths               *)
(*   combined_score                              numerator over CombDen    *)
(*   ml_prob                                     numerator over ProbDen    *)
(*   kelly (unrounded)                           numerator over KellyDen   *)
(*   kelly_pct, ratios of the provider           1/10000 (basis points)    *)
(*   P/E, Debt/Equity                            hundredths                *)
(* Python's round() and the '%' formats are modelled as round-half-even on *)
(* the exact value; where the exact value is a decimal tie the binary      *)
(* float may fall on either side.  Non-finite readings (nan, inf) are not  *)
(* modelled.                                                               *)
(***************************************************************************)
EXTENDS Integers, Sequences, FiniteSets

VARIABLES
    TELEGRAM_TOKEN,  \* TRUE iff the environment variable is set (line 13)
    inflight,        \* the HTTP request sent to the service, not yet handled
    handled,         \* the request last handled, with what the environment did
    response,        \* the HTTP response to that request
    effects,         \* what handling it did: provider queries, posts, stages
    call,            \* argument of a direct call of a pure function
    ret              \* and its return value

vars == <<TELEGRAM_TOKEN, inflight, handled, response, effects, call, ret>>

---------------------------------------------------------------------------
(* Arithmetic *)

\* round(x, ndigits) and the ':.N%' formats: n/d to the nearest integer,
\* ties to even.  d > 0; \div is floor division, so negatives are right.
RoundHalfEven(n, d) ==
    LET q == n \div d
        r == n % d
    IN  IF 2 * r < d THEN q
        ELSE IF 2 * r > d THEN q + 1
        ELSE IF q % 2 = 0 THEN q ELSE q + 1

Min(a, b) == IF a <= b THEN a ELSE b
Max(a, b) == IF a >= b THEN a ELSE b

\* (r/70 + v/1.5 + flag)/3 with r, v in tenths has denominator 6300.
TechDen == 3 * 2100
\* technical_score*0.7 + fundamental_score*0.3 (thousandths): over 90000.
CombDen == 90 * 1000
\* 0.5 + combined_score*0.3: over 300000.
ProbDen == 300 * 1000
\* rr, in tenths (default of quant_analysis).
RR == 28
\* (prob*(rr+1) - 1)/rr over ProbDen*RR.
KellyDen == ProbDen * RR

---------------------------------------------------------------------------
(* fundamental_analysis_historical *)

\* What the market-data provider answers to one statement query.
\*   raise  the query (or the computation on its result) raises
\*   empty  empty frame, or the row looked for is not in it
\*   short  fewer than two usable periods
\*   nan    the number computed is nan (root of a negative ratio, one price)
\*   data   v is the number computed, in basis points
Stmt(k, x) == [kind |-> k, v |-> x]

\* One key of the info snapshot: absent, present with a value that cannot
\* be compared with a number (None, a string), or a number.
Fld(k, x) == [kind |-> k, v |-> x]
Absent == Fld("absent", 0)
Bad == Fld("bad", 0)

\* A reported sub-metric: 'N/A', 'nan%' or a number.
NA == [kind |-> "N/A", v |-> 0]
Rep(k, x) == [kind |-> k, v |-> x]

\* f"{x:.1%}" of a ratio in basis points: per-mille.
FmtPct1(s) ==
    IF s.kind = "data" THEN Rep("num", RoundHalfEven(s.v, 10))
    ELSE IF s.kind = "nan" THEN Rep("nan", 0)
    ELSE NA

\* f"{x:.2%}" of a ratio in basis points: basis points.
FmtPct2(s) ==
    IF s.kind = "data" THEN Rep("num", s.v)
    ELSE IF s.kind = "nan" THEN Rep("nan", 0)
    ELSE NA

\* Block 1: volatility.  Points are in halves (1 point = 2).
VolatilityPoints(h) ==
    IF h.kind # "data" THEN 0
    ELSE IF h.v < 2000 THEN 2
    ELSE IF h.v < 3500 THEN 1
    ELSE 0

\* Block 2: revenue CAGR.
RevenuePoints(f) ==
    IF f.kind # "data" THEN 0
    ELSE IF f.v > 2000 THEN 4
    ELSE IF f.v > 1000 THEN 2
    ELSE IF f.v > 0 THEN 1
    ELSE 0

\* Block 3: margin trend.
MarginPoints(q) ==
    IF q.kind # "data" THEN 0
    ELSE IF q.v > 500 THEN 4
    ELSE IF q.v > 0 THEN 2
    ELSE 0

\* Block 4: free cash flow CAGR.
FcfPoints(c) ==
    IF c.kind # "data" THEN 0
    ELSE IF c.v > 1500 THEN 4
    ELSE IF c.v > 0 THEN 2
    ELSE 0

\* The value a block leaves in its variable: the except branch and the
\* guards that were not passed leave None.
Kept(s) == IF s.kind \in {"data", "nan"} THEN s ELSE Stmt("empty", 0)

\* info.get('forwardPE', info.get('trailingPE', 999)), in hundredths.
PeOf(info) ==
    IF info.forwardPE.kind # "absent" THEN info.forwardPE
    ELSE IF info.trailingPE.kind # "absent" THEN info.trailingPE
    ELSE Fld("num", 99900)

RoeOf(info) ==
    IF info.returnOnEquity.kind # "absent" THEN info.returnOnEquity
    ELSE Fld("num", 0)

DebtOf(info) ==
    IF info.debtToEquity.kind # "absent" THEN info.debtToEquity
    ELSE Fld("num", 99900)

PePoints(pe) == IF pe.v < 1500 THEN 4 ELSE IF pe.v < 2500 THEN 2 ELSE 0
RoePoints(roe) == IF roe.v > 2000 THEN 2 ELSE IF roe.v > 1500 THEN 1 ELSE 0
DebtPoints(d) == IF d.v < 5000 THEN 2 ELSE IF d.v < 10000 THEN 1 ELSE 0

\* Block 5: the three snapshot metrics share one try.  A comparison that
\* raises leaves the points already added and resets pe, roe and debt.
Snapshot(info) ==
    LET dflt(pts) == [points |-> pts, pe |-> 99900, roe |-> 0, debt |-> 99900]
        pe == PeOf(info)
        roe == RoeOf(info)
        debt == DebtOf(info)
    IN  IF info.kind = "raise" THEN dflt(0)
        ELSE IF pe.kind = "bad" THEN dflt(0)
        ELSE IF roe.kind = "bad" THEN dflt(PePoints(pe))
        ELSE IF debt.kind = "bad" THEN dflt(PePoints(pe) + RoePoints(roe))
        ELSE [points |-> PePoints(pe) + RoePoints(roe) + DebtPoints(debt),
              pe |-> pe.v, roe |-> roe.v, debt |-> debt.v]

\* max_score = 10 points.
max_score == 10

\* score / max_score without the cap at 1.0.
NormalizeScoreUncapped(score) == RoundHalfEven(score * 1000, 2 * max_score)

\* min(1.0, score / max_score), rounded to 3 places; score in half points.
NormalizeScore(score) ==
    RoundHalfEven(Min(2 * max_score * 1000, score * 1000), 2 * max_score)

DefaultProfile ==
    [fundamental_score |-> 0, revenue_growth_cagr |-> NA, margin_trend |-> NA,
     fcf_growth |-> NA, volatility |-> NA, pe_ratio |-> NA, roe |-> NA,
     debt_equity |-> NA, queries |-> 0, raised |-> FALSE]

\* queries: the number of provider queries made; raised: whether an
\* exception leaves the function (neither is part of the dict).  The outer
\* except of line 252 turns a raising yf.Ticker into the default profile.
fundamental_analysis_historical(m) ==
    IF m.ticker = "raise" THEN DefaultProfile
    ELSE
    LET snap == Snapshot(m.info)
        score == VolatilityPoints(m.history) + RevenuePoints(m.financials)
                 + MarginPoints(m.quarterly_financials)
                 + FcfPoints(m.cashflow) + snap.points
    IN  [fundamental_score |-> NormalizeScore(score),
         revenue_growth_cagr |-> FmtPct1(Kept(m.financials)),
         margin_trend |-> FmtPct2(Kept(m.quarterly_financials)),
         fcf_growth |-> FmtPct1(Kept(m.cashflow)),
         volatility |-> FmtPct1(Kept(m.history)),
         pe_ratio |-> IF snap.pe # 99900
                      THEN Rep("num", RoundHalfEven(snap.pe, 10)) ELSE NA,
         roe |-> IF snap.roe # 0
                 THEN Rep("num", RoundHalfEven(snap.roe, 10)) ELSE NA,
         debt_equity |-> IF snap.debt # 99900
                         THEN Rep("num", RoundHalfEven(snap.debt, 10)) ELSE NA,
         queries |-> 5, raised |-> FALSE]

---------------------------------------------------------------------------
(* quant_analysis *)

\* quant_analysis without the floor at zero.
quant_analysis_unfloored(prob, rr) ==
    LET kelly == prob * (rr + 10) - 10 * ProbDen
    IN  [kelly |-> kelly,
         kelly_pct |-> RoundHalfEven(kelly, (ProbDen \div 10000) * rr),
         position_size |-> RoundHalfEven(kelly, (ProbDen \div 1000) * rr)]

\* prob over ProbDen, rr in tenths.  kelly is kept unrounded (over
\* ProbDen*rr); kelly_pct is round(kelly, 4) in basis points and
\* position_size the ':.1%' text, in per-mille.
quant_analysis(prob, rr) ==
    LET kelly == Max(0, prob * (rr + 10) - 10 * ProbDen)
    IN  [kelly |-> kelly,
         kelly_pct |-> RoundHalfEven(kelly, (ProbDen \div 10000) * rr),
         position_size |-> RoundHalfEven(kelly, (ProbDen \div 1000) * rr)]

---------------------------------------------------------------------------
(* send_telegram, build_telegram_msg *)

\* What the Telegram API does with one post.
TelegramOutcomes == {"ok", "non200", "neterror"}

\* send_telegram without the try around requests.post.
send_telegram_unguarded(token, outcome) ==
    IF ~token THEN [posts |-> 0, raised |-> FALSE, log |-> "warning"]
    ELSE IF outcome = "ok" THEN [posts |-> 1, raised |-> FALSE, log |-> "info"]
    ELSE IF outcome = "non200"
    THEN [posts |-> 1, raised |-> FALSE, log |-> "error"]
    ELSE [posts |-> 1, raised |-> TRUE, log |-> ""]

\* posts: HTTP posts made; raised: whether an exception leaves the function.
send_telegram(token, outcome) ==
    IF ~token THEN [posts |-> 0, raised |-> FALSE, log |-> "warning"]
    ELSE IF outcome = "ok" THEN [posts |-> 1, raised |-> FALSE, log |-> "info"]
    ELSE [posts |-> 1, raised |-> FALSE, log |-> "error"]

\* THRESHOLD = 0.60, in percent.
THRESHOLD == 60

\* prob > percent/100: the comparison made strict.
AbovePct(prob, percent) == prob * 100 > percent * ProbDen

\* prob >= percent/100, prob over ProbDen.
AtLeastPct(prob, percent) == prob * 100 >= percent * ProbDen

build_telegram_msg(ticker, action, price, ml_prob, fund, quant, should_trade) ==
    LET action_emoji == IF action = "buy" THEN "COMPRA" ELSE "VENTA"
    IN  [kind |-> "report",
         stars |-> IF AtLeastPct(ml_prob, THRESHOLD + 10) THEN 3
                   ELSE IF AtLeastPct(ml_prob, THRESHOLD) THEN 2 ELSE 1,
         headline |-> action_emoji,
         ticker |-> ticker,
         price |-> price,
         score |-> RoundHalfEven(ml_prob, ProbDen \div 1000),
         position_size |-> quant.position_size,
         decision |-> IF should_trade THEN action_emoji ELSE "ESPERAR",
         caveat |-> ~AtLeastPct(ml_prob, 65)]

NoMsg ==
    [kind |-> "none", stars |-> 0, headline |-> "", ticker |-> "",
     price |-> 0, score |-> 0, position_size |-> 0, decision |-> "",
     caveat |-> FALSE]

\* The rejection text of line 65: Kelly as ':.2%', Prob as ':.1%'.
RejectedMsg(ticker, quant, ml_prob) ==
    [NoMsg EXCEPT !.kind = "rejected", !.ticker = ticker,
                  !.position_size = quant.kelly_pct,
                  !.score = RoundHalfEven(ml_prob, ProbDen \div 1000)]

---------------------------------------------------------------------------
(* webhook *)

\* min(1.0, (plot_0/70 + plot_2/1.5 + (1 if plot_1>0 else 0))/3), readings
\* in tenths, result over TechDen.
technical_score(plot_0, plot_1, plot_2) ==
    Min(TechDen, 3 * plot_0 + 140 * plot_2
                 + (IF plot_1 > 0 THEN TechDen \div 3 ELSE 0))

\* (technical_score * 0.7) + (fundamental_score * 0.3), over CombDen.
combined_score(tech, fund_score) == 10 * tech + 27 * fund_score

\* 0.5 + combined_score * 0.3, over ProbDen.
ml_prob_of(combined) == ProbDen \div 2 + combined

\* The filter written as Kelly < 1 (1% taken for the number 1).
KELLY_FILTER_as_one == 100 * 100

\* The filter of line 64, kelly_pct < 0.01, in basis points.
KELLY_FILTER == 100

required_fields == {"ticker", "plot_0", "plot_1", "plot_2"}

\* A JSON value met where a number is wanted: missing key, a value float()
\* rejects, or a number.
Missing == Fld("missing", 0)
Malformed == Fld("malformed", 0)
Num(x) == Fld("num", x)

NoResponse ==
    [code |-> 0, status |-> "", fields |-> {}, message |-> "", ticker |-> "",
     ml_prob |-> [v |-> 0, den |-> 1], technical_score |-> 0,
     fundamental_score |-> 0, kelly |-> 0, decision |-> ""]

\* The handler's locals, once computed.
NoLocals ==
    [technical_score |-> 0, fundamental_score |-> 0, ml_prob |-> 0,
     kelly |-> 0, kelly_pct |-> 0]

NoEffects ==
    [queries |-> 0, posts |-> 0, steps |-> <<>>, msg |-> NoMsg,
     locals |-> NoLocals]

ErrorResponse(c, text) ==
    [NoResponse EXCEPT !.code = c, !.status = "error", !.message = text,
                       !.fields = {"status", "message"}]

Present(req, field) ==
    IF field = "ticker" THEN req.ticker # ""
    ELSE IF field = "plot_0" THEN req.plot_0.kind # "missing"
    ELSE IF field = "plot_1" THEN req.plot_1.kind # "missing"
    ELSE req.plot_2.kind # "missing"

\* The handler of POST /webhook on request req, when the provider answers m
\* and Telegram answers outcome.  [response, effects].
webhook(req, m, token, outcome) ==
    LET fund == fundamental_analysis_historical(m)
        tech == technical_score(req.plot_0.v, req.plot_1.v, req.plot_2.v)
        ml_prob == ml_prob_of(combined_score(tech, fund.fundamental_score))
        quant == quant_analysis(ml_prob, RR)
        sent == send_telegram(token, outcome)
        should_trade == AtLeastPct(ml_prob, THRESHOLD)
        action == IF req.action = "absent" THEN "buy" ELSE req.action
        price == IF req.close.kind = "missing" THEN 0 ELSE req.close.v
        locals == [technical_score |-> tech,
                   fundamental_score |-> fund.fundamental_score,
                   ml_prob |-> ml_prob, kelly |-> quant.kelly,
                   kelly_pct |-> quant.kelly_pct]
        scored == <<"get_json", "validate", "parse", "technical_score",
                    "fundamental_analysis_historical", "combined_score",
                    "quant_analysis", "kelly_filter">>
    IN  IF req.json # "object"
        THEN [response |-> ErrorResponse(500, "TypeError"),
              effects |-> [NoEffects EXCEPT !.steps = <<"get_json">>]]
        ELSE IF \E f \in required_fields : ~Present(req, f)
        THEN [response |-> ErrorResponse(400, "Campos requeridos"),
              effects |-> [NoEffects EXCEPT
                              !.steps = <<"get_json", "validate">>]]
        ELSE IF \/ req.close.kind = "malformed"
                \/ \E p \in {req.plot_0, req.plot_1, req.plot_2} :
                       p.kind = "malformed"
        THEN [response |-> ErrorResponse(500, "ValueError"),
              effects |-> [NoEffects EXCEPT
                              !.steps = <<"get_json", "validate", "parse">>]]
        ELSE IF fund.raised
        THEN [response |-> ErrorResponse(500, "Exception"),
              effects |-> [NoEffects EXCEPT
                              !.queries = fund.queries,
                              !.steps = <<"get_json", "validate", "parse",
                                          "technical_score",
                                          "fundamental_analysis_historical">>]]
        ELSE IF quant.kelly_pct < KELLY_FILTER
        THEN IF sent.raised
             THEN [response |-> ErrorResponse(500, "ConnectionError"),
                   effects |-> [queries |-> fund.queries, posts |-> sent.posts,
                                steps |-> scored \o <<"send_telegram">>,
                                msg |-> RejectedMsg(req.ticker, quant, ml_prob),
                                locals |-> locals]]
             ELSE [response |->
                      [NoResponse EXCEPT
                          !.code = 200, !.status = "filtered",
                          !.message = "Kelly too low",
                          !.kelly = quant.kelly_pct,
                          !.ml_prob = [v |-> ml_prob, den |-> ProbDen],
                          !.fields = {"status", "reason", "kelly", "ml_prob"}],
                   effects |-> [queries |-> fund.queries, posts |-> sent.posts,
                                steps |-> scored \o <<"send_telegram">>,
                                msg |-> RejectedMsg(req.ticker, quant, ml_prob),
                                locals |-> locals]]
        ELSE LET msg == build_telegram_msg(req.ticker, action, price, ml_prob,
                                           fund, quant, should_trade)
                 done == scored \o <<"threshold", "build_telegram_msg",
                                     "send_telegram">>
             IN  IF sent.raised
                 THEN [response |-> ErrorResponse(500, "ConnectionError"),
                       effects |-> [queries |-> fund.queries,
                                    posts |-> sent.posts,
                                    steps |-> done, msg |-> msg,
                                    locals |-> locals]]
                 ELSE [response |->
                          [NoResponse EXCEPT
                              !.code = 200, !.status = "processed",
                              !.ticker = req.ticker,
                              !.ml_prob = [v |-> RoundHalfEven(ml_prob,
                                                    ProbDen \div 1000),
                                           den |-> 1000],
                              !.technical_score =
                                  RoundHalfEven(tech * 10, TechDen \div 100),
                              !.fundamental_score = fund.fundamental_score,
                              !.kelly = quant.kelly_pct,
                              !.decision = IF should_trade THEN "TRADE"
                                           ELSE "SKIP",
                              !.fields = {"status", "ticker", "ml_prob",
                                          "technical_score",
                                          "fundamental_score", "kelly",
                                          "decision"}],
                       effects |-> [queries |-> fund.queries,
                                    posts |-> sent.posts,
                                    steps |-> done, msg |-> msg,
                                    locals |-> locals]]

\* GET /: the health probe (the timestamp is left out).
health ==
    [NoResponse EXCEPT !.code = 200, !.status = "VADERBOOT-IA 24/7 LIVE",
                       !.message = "/webhook",
                       !.fields = {"status", "webhook", "timestamp"}]

---------------------------------------------------------------------------
(* The environment: the provider's answers and the requests *)

HistoryCases ==
    {Stmt("raise", 0), Stmt("empty", 0)}
        \cup {Stmt("data", x) : x \in {1999, 2000, 3500}}

FinancialsCases ==
    {Stmt(k, 0) : k \in {"raise", "empty", "short", "nan"}}
        \cup {Stmt("data", x) : x \in {1000, 2000, 2001}}

QuarterlyCases ==
    {Stmt(k, 0) : k \in {"raise", "empty", "short"}}
        \cup {Stmt("data", x) : x \in {0, 500, 501}}

CashflowCases ==
    {Stmt(k, 0) : k \in {"raise", "empty", "short", "nan"}}
        \cup {Stmt("data", x) : x \in {1500, 1501}}

Info(k, f, t, r, d) ==
    [kind |-> k, forwardPE |-> f, trailingPE |-> t, returnOnEquity |-> r,
     debtToEquity |-> d]

InfoRaise == Info("raise", Absent, Absent, Absent, Absent)

InfoCases ==
    {InfoRaise} \cup
    {Info("data", f, t, r, d) :
        f \in {Absent, Bad, Num(1499), Num(2500)},
        t \in {Absent, Bad, Num(2499)},
        r \in {Absent, Bad, Num(1501), Num(2001)},
        d \in {Absent, Bad, Num(4999), Num(9999)}}

Market(tk, h, f, q, c, i) ==
    [ticker |-> tk, history |-> h, financials |-> f,
     quarterly_financials |-> q, cashflow |-> c, info |-> i]

\* yf.Ticker(ticker) itself raises.
TickerRaise ==
    Market("raise", Stmt("raise", 0), Stmt("raise", 0), Stmt("raise", 0),
           Stmt("raise", 0), InfoRaise)

\* Every one of the five queries raises.
AllQueriesRaise ==
    Market("ok", Stmt("raise", 0), Stmt("raise", 0), Stmt("raise", 0),
           Stmt("raise", 0), InfoRaise)

Markets ==
    {TickerRaise} \cup
    {Market("ok", h, f, q, c, i) :
        h \in HistoryCases, f \in FinancialsCases, q \in QuarterlyCases,
        c \in CashflowCases, i \in InfoCases}

\* The provider's answers tried under the webhook: fundamental scores
\* 0, 0, 0.15, 0.5 and 1 (11 points, capped).
WebhookMarkets ==
    {TickerRaise, AllQueriesRaise,
     Market("ok", Stmt("data", 2000), Stmt("short", 0), Stmt("data", 500),
            Stmt("raise", 0), InfoRaise),
     Market("ok", Stmt("data", 3500), Stmt("data", 2000), Stmt("empty", 0),
            Stmt("nan", 0),
            Info("data", Absent, Num(2499), Num(2001), Bad)),
     Market("ok", Stmt("data", 1999), Stmt("data", 2001), Stmt("data", 501),
            Stmt("data", 1501),
            Info("data", Num(1499), Absent, Num(2001), Num(4999)))}

\* Bounds of the readings and of the probabilities tried.
MaxRsi == 2
MaxRvol == 2
MaxProb == 120

\* plot_0 (RSI), in tenths: steps of 35.0 and the readings at the filter
\* and at the decision threshold.
RsiReadings == {-2296, -2295, 299, 300} \cup {35 * 10 * k : k \in 0..MaxRsi}
\* plot_1 (MACD), in tenths.
MacdReadings == {0, 5}
\* plot_2 (RVOL), in tenths: steps of 1.0.
RvolReadings == {10 * k : k \in 0..MaxRvol}

Request(mth, js, tk, ac, cl, p0, p1, p2) ==
    [method |-> mth, json |-> js, ticker |-> tk, action |-> ac, close |-> cl,
     plot_0 |-> p0, plot_1 |-> p1, plot_2 |-> p2]

NoRequest ==
    Request("none", "none", "", "absent", Missing, Missing, Missing, Missing)

GetRequest ==
    Request("GET", "none", "", "absent", Missing, Missing, Missing, Missing)

\* A body that is no JSON object.
InvalidBody ==
    Request("POST", "invalid", "", "absent", Missing, Missing, Missing,
            Missing)

PostRequests ==
    {InvalidBody} \cup
    {Request("POST", "object", tk, ac, cl, p0, p1, p2) :
        tk \in {"", "AAPL"}, ac \in {"absent", "sell"},
        cl \in {Missing, Malformed, Num(1505)},
        p0 \in {Missing, Malformed} \cup {Num(x) : x \in RsiReadings},
        p1 \in {Missing, Malformed} \cup {Num(x) : x \in MacdReadings},
        p2 \in {Missing, Malformed} \cup {Num(x) : x \in RvolReadings}}

NoHandled == [req |-> NoRequest, market |-> TickerRaise, outcome |-> "none"]

\* Probabilities quant_analysis is called with, over ProbDen: 0 to 1.
ProbGrid == {(ProbDen \div 120) * k : k \in 0..MaxProb}

NoCall == [fn |-> "none", market |-> TickerRaise, prob |-> 0]

---------------------------------------------------------------------------
(* The service *)

Init ==
    /\ TELEGRAM_TOKEN \in BOOLEAN
    /\ inflight = NoRequest
    /\ handled = NoHandled
    /\ response = NoResponse
    /\ effects = NoEffects
    /\ call = NoCall
    /\ ret = {}

\* The alert sender posts an alert (one request at a time: the service
\* keeps nothing from one request to the next).
Post(req) ==
    /\ inflight = NoRequest
    /\ response = NoResponse
    /\ inflight' = req
    /\ UNCHANGED <<TELEGRAM_TOKEN, handled, response, effects, call, ret>>

\* A monitor probes GET /.
Get ==
    /\ inflight = NoRequest
    /\ response = NoResponse
    /\ inflight' = GetRequest
    /\ UNCHANGED <<TELEGRAM_TOKEN, handled, response, effects, call, ret>>

\* The client reads the response; nothing of the request is left.
Receive ==
    /\ response # NoResponse
    /\ response' = NoResponse
    /\ handled' = NoHandled
    /\ effects' = NoEffects
    /\ UNCHANGED <<TELEGRAM_TOKEN, inflight, call, ret>>

\* The handler of POST /webhook runs to its return.
Webhook(m, outcome) ==
    /\ inflight.method = "POST"
    /\ LET out == webhook(inflight, m, TELEGRAM_TOKEN, outcome)
       IN  /\ response' = out.response
           /\ effects' = out.effects
    /\ handled' = [req |-> inflight, market |-> m, outcome |-> outcome]
    /\ inflight' = NoRequest
    /\ UNCHANGED <<TELEGRAM_TOKEN, call, ret>>

\* The handler of GET /.
Health ==
    /\ inflight.method = "GET"
    /\ response' = health
    /\ effects' = NoEffects
    /\ handled' = [NoHandled EXCEPT !.req = inflight]
    /\ inflight' = NoRequest
    /\ UNCHANGED <<TELEGRAM_TOKEN, call, ret>>

\* Telegram is reached only with a token.
OutcomesNow == IF TELEGRAM_TOKEN THEN TelegramOutcomes ELSE {"disabled"}

Next ==
    \/ \E req \in PostRequests : Post(req)
    \/ Get
    \/ \E m \in WebhookMarkets, o \in OutcomesNow : Webhook(m, o)
    \/ Health
    \/ Receive

Spec == Init /\ [][Next]_vars

---------------------------------------------------------------------------
(* fundamental_analysis_historical called on every answer of the provider *)

InitFund ==
    /\ TELEGRAM_TOKEN = FALSE
    /\ inflight = NoRequest
    /\ handled = NoHandled
    /\ response = NoResponse
    /\ effects = NoEffects
    /\ call \in {[fn |-> "fundamental_analysis_historical", market |-> m,
                  prob |-> 0] : m \in Markets}
    /\ ret = {}

CallFundamental ==
    /\ call.fn = "fundamental_analysis_historical"
    /\ ret = {}
    /\ ret' = {fundamental_analysis_historical(call.market)}
    /\ UNCHANGED <<TELEGRAM_TOKEN, inflight, handled, response, effects, call>>

NextFund == CallFundamental

SpecFund == InitFund /\ [][NextFund]_vars

---------------------------------------------------------------------------
(* quant_analysis called on a grid of probabilities *)

InitQuant ==
    /\ TELEGRAM_TOKEN = FALSE
    /\ inflight = NoRequest
    /\ handled = NoHandled
    /\ response = NoResponse
    /\ effects = NoEffects
    /\ call \in {[fn |-> "quant_analysis", market |-> TickerRaise,
                  prob |-> p] : p \in ProbGrid}
    /\ ret = {}

CallQuant ==
    /\ call.fn = "quant_analysis"
    /\ ret = {}
    /\ ret' = {quant_analysis(call.prob, RR)}
    /\ UNCHANGED <<TELEGRAM_TOKEN, inflight, handled, response, effects, call>>

NextQuant == CallQuant

SpecQuant == InitQuant /\ [][NextQuant]_vars

---------------------------------------------------------------------------
(* Properties *)

\* The position of stage x in the stages run, 0 when it did not run.
Pos(steps, x) ==
    IF \E i \in 1..Len(steps) : steps[i] = x
    THEN CHOOSE i \in 1..Len(steps) : steps[i] = x
    ELSE 0

Ran(x) == Pos(effects.steps, x) > 0

\* A POST /webhook request has been handled and answered.
Answered == handled.req.method = "POST" /\ response # NoResponse

\* The request got past validation and parsing: it was scored.
Scored == Answered /\ Ran("quant_analysis")

\* f* = max(0, (p*(b+1) - 1)/b) for b = 2.8, over KellyDen, from the
\* probability the handler computed.
FStar(p) == Max(0, 38 * p - 10 * ProbDen)

\* C1: for every validated POST /webhook request the Kelly filter is
\* evaluated before the trade/skip threshold, and whenever f* < 0.01 the
\* response has status 'filtered', carries the probability and the Kelly
\* fraction, and holds no TRADE/SKIP decision.
ClaimC1 ==
    Scored =>
        /\ Ran("kelly_filter")
        /\ Ran("threshold") =>
               Pos(effects.steps, "kelly_filter") < Pos(effects.steps, "threshold")
        /\ FStar(effects.locals.ml_prob) * 100 < KellyDen =>
               /\ response.status = "filtered"
               /\ {"kelly", "ml_prob"} \subseteq response.fields
               /\ "decision" \notin response.fields
               /\ ~Ran("threshold")

\* C2: a validated request that is not filtered is answered TRADE iff its
\* probability is >= 0.60 and SKIP otherwise; filtered, trade and skip
\* exclude one another and each successfully processed request gets
\* exactly one of them.
TheoremC2 ==
    (Answered /\ response.code = 200) =>
        /\ response.status \in {"filtered", "processed"}
        /\ response.status = "filtered" =>
               /\ response.decision = ""
               /\ "decision" \notin response.fields
        /\ response.status = "processed" =>
               /\ "decision" \in response.fields
               /\ response.decision \in {"TRADE", "SKIP"}
               /\ response.decision = "TRADE" <=>
                      5 * effects.locals.ml_prob >= 3 * ProbDen

\* A request answered TRADE with a probability of exactly 0.60.
WitnessC2 ==
    /\ Answered
    /\ response.status = "processed"
    /\ response.decision = "TRADE"
    /\ 5 * effects.locals.ml_prob = 3 * ProbDen

\* C3: for every request that reaches scoring, whatever the readings and
\* the provider's answers, the probability computed and reported lies in
\* [0.5, 0.8].
ClaimC3 ==
    Scored =>
        /\ 2 * effects.locals.ml_prob >= ProbDen
        /\ 5 * effects.locals.ml_prob <= 4 * ProbDen
        /\ "ml_prob" \in response.fields =>
               /\ 2 * response.ml_prob.v >= response.ml_prob.den
               /\ 5 * response.ml_prob.v <= 4 * response.ml_prob.den

\* C4: for all readings the technical score computed by the handler lies
\* in [0, 1].
ClaimC4 ==
    (Answered /\ Ran("technical_score")) =>
        /\ effects.locals.technical_score >= 0
        /\ effects.locals.technical_score <= TechDen

\* The points the five blocks add, in half points.
AccumulatedPoints(m) ==
    IF m.ticker = "raise" THEN 0
    ELSE VolatilityPoints(m.history) + RevenuePoints(m.financials)
         + MarginPoints(m.quarterly_financials) + FcfPoints(m.cashflow)
         + Snapshot(m.info).points

EveryQueryFails(m) ==
    \/ m.ticker = "raise"
    \/ /\ m.history.kind = "raise"
       /\ m.financials.kind = "raise"
       /\ m.quarterly_financials.kind = "raise"
       /\ m.cashflow.kind = "raise"
       /\ m.info.kind = "raise"

Returned == call.fn # "none" /\ ret # {}

\* C5: whatever succeeds or fails among the five provider queries,
\* fundamental_analysis_historical returns without raising, its
\* fundamental_score is min(1.0, points/10), lies in [0, 1], and is 0 when
\* every query fails.
TheoremC5 ==
    (Returned /\ call.fn = "fundamental_analysis_historical") =>
        \A r \in ret :
            /\ ~r.raised
            /\ r.fundamental_score >= 0
            /\ r.fundamental_score <= 1000
            /\ IF AccumulatedPoints(call.market) >= 20
               THEN r.fundamental_score = 1000
               ELSE r.fundamental_score = 50 * AccumulatedPoints(call.market)
            /\ EveryQueryFails(call.market) => r.fundamental_score = 0

\* The call has returned for a provider whose five queries all raise.
WitnessC5 ==
    /\ Returned
    /\ call.market = AllQueriesRaise
    /\ \E r \in ret : r.fundamental_score = 0 /\ r.queries = 5

\* The provider's answer with every failing sub-metric replaced by its
\* absence: what the other sub-metrics see if the failure is isolated.
Isolated(m) ==
    LET i == m.info
        allAbsent == Info("data", Absent, Absent, Absent, Absent)
        peBad == PeOf(i).kind = "bad"
        info0 == IF i.kind = "raise" THEN allAbsent
                 ELSE [i EXCEPT
                         !.forwardPE = IF peBad THEN Absent ELSE @,
                         !.trailingPE = IF peBad THEN Absent ELSE @,
                         !.returnOnEquity = IF @ = Bad THEN Absent ELSE @,
                         !.debtToEquity = IF @ = Bad THEN Absent ELSE @]
        stmt0(x) == IF x.kind = "raise" THEN Stmt("empty", 0) ELSE x
    IN  Market(m.ticker, stmt0(m.history), stmt0(m.financials),
               stmt0(m.quarterly_financials), stmt0(m.cashflow), info0)

\* C6: each sub-metric is isolated: one that fails is reported 'N/A' and
\* adds no points, and the points and the reported value of every other
\* sub-metric are what they are without the failure.
ClaimC6 ==
    (Returned /\ call.fn = "fundamental_analysis_historical"
        /\ call.market.ticker = "ok") =>
        \A r \in ret :
            r = fundamental_analysis_historical(Isolated(call.market))

\* The required input of req, a JSON object, is missing or malformed.
BadInput(req) ==
    /\ req.json = "object"
    /\ \/ \E f \in required_fields : ~Present(req, f)
       \/ \E p \in {req.plot_0, req.plot_1, req.plot_2} :
              p.kind = "malformed"

\* C7: a request whose required input is missing or malformed is answered
\* 400 before any scoring work: no provider query, no notification.
ClaimC7 ==
    (Answered /\ BadInput(handled.req)) =>
        /\ response.code = 400
        /\ effects.queries = 0
        /\ effects.posts = 0
        /\ ~Ran("technical_score")
        /\ ~Ran("send_telegram")

\* C8: the outcome of the notification never changes the HTTP response:
\* the same request with the same provider data gets the same status code
\* and body whether send_telegram succeeds, gets a non-200 reply, meets a
\* network error or is disabled for want of a token; and delivery is
\* attempted at most once per request.
TheoremC8 ==
    Answered =>
        /\ \A token \in BOOLEAN, o \in TelegramOutcomes :
               webhook(handled.req, handled.market, token, o).response
                   = response
        /\ effects.posts <= 1
        /\ ~TELEGRAM_TOKEN => effects.posts = 0
        /\ Cardinality({i \in 1..Len(effects.steps) :
                            effects.steps[i] = "send_telegram"}) <= 1

\* A scored request answered 200 although its one post met a network error.
WitnessC8 ==
    /\ Scored
    /\ TELEGRAM_TOKEN
    /\ handled.outcome = "neterror"
    /\ effects.posts = 1
    /\ response.code = 200

\* C9 as stated: for every probability p and b = 2.8, quant_analysis
\* returns a Kelly fraction equal to max(0, (p*(b+1) - 1)/b), never
\* negative.
ClaimC9 ==
    (Returned /\ call.fn = "quant_analysis") =>
        \A r \in ret :
            /\ r.kelly_pct * (KellyDen \div 10000) = FStar(call.prob)
            /\ r.kelly_pct >= 0

\* C9 as amended: the Kelly fraction returned is max(0, (p*(b+1) - 1)/b)
\* rounded to four decimal places (it is within 0.00005 of it), and is
\* never negative.
TheoremC9 ==
    (Returned /\ call.fn = "quant_analysis") =>
        \A r \in ret :
            LET exact == FStar(call.prob)
                got == r.kelly_pct * (KellyDen \div 10000)
            IN  /\ 2 * (got - exact) <= KellyDen \div 10000
                /\ 2 * (exact - got) <= KellyDen \div 10000
                /\ r.kelly_pct >= 0

\* quant_analysis has returned 0 for a probability with a negative edge.
WitnessC9 ==
    /\ Returned
    /\ call.fn = "quant_analysis"
    /\ 38 * call.prob < 10 * ProbDen
    /\ \E r \in ret : r.kelly_pct = 0

\* C10: with reward:risk 2.8, filter 0.01 and threshold 0.60, every request
\* answered 'filtered' has a probability below 0.60, and a request whose
\* technical score is >= 0 is never filtered.
TheoremC10 ==
    Scored =>
        /\ response.status = "filtered" =>
               5 * effects.locals.ml_prob < 3 * ProbDen
        /\ effects.locals.technical_score >= 0 =>
               response.status # "filtered"

\* A request has been filtered.
WitnessC10 ==
    /\ Scored
    /\ response.status = "filtered"
    /\ effects.locals.technical_score < 0

=============================================================================
